---- MODULE Spec2Model ----
(***************************************************************************)
(* A model of the blog site: the Post / Comment / User tables, the three   *)
(* read views of posts/views.py, signup_view of users/views.py, the        *)
(* routing tables, and the admin operations that create and delete rows.   *)
(*                                                                         *)
(* Each client is one browser: it has one request in flight at a time and  *)
(* one session.  Requests of different clients interleave between any two  *)
(* database accesses of a view (autocommit, no transaction around a view), *)
(* so a view that touches the database twice is two steps.  `response` is  *)
(* the response the last step sent, with the client it went to (and no     *)
(* response when the last step sent none).                                 *)
(***************************************************************************)
EXTENDS Naturals, Integers, FiniteSets, Sequences, Bags, TLC

VARIABLES posts, comments, users,
          nextPostId, nextCommentId, nextUserId,
          clock, pc, req, response, session, hist

vars == <<posts, comments, users, nextPostId, nextCommentId, nextUserId,
          clock, pc, req, response, session, hist>>

\* The persisted state: the three tables and their id sequences (clock is the
\* count of posts ever created, kept to tell the order of creation).
store == <<posts, comments, users, nextPostId, nextCommentId, nextUserId, clock>>

(***************************************************************************)
(* Bounds of the model.                                                    *)
(***************************************************************************)
MaxPosts == 2
MaxComments == 2
MaxUsers == 2
MaxHomePosts == 7

\* posts/views.py:12, the slice [:5]
HomeLimit == 5

Clients == {"c1", "c2"}
Readers == {"c1"}
Signers == {"c2"}

Usernames == {"ann", "bob"}
Passwords == {"pw", "typo"}
PostData == {[title |-> "t", content |-> "x", publish_date |-> "2024-01-01"]}
CommentContents == {"c"}

AnonymousSession == [authenticated |-> FALSE, user_id |-> 0]
\* login(request, user)
login(user) == [authenticated |-> TRUE, user_id |-> user.id]
NoRequest == [route |-> "none"]
NoResponse == [client |-> "none", request |-> NoRequest, http |-> [view |-> "none", status |-> 0]]

(***************************************************************************)
(* Rows.                                                                   *)
(***************************************************************************)
Ids(table) == {r.id : r \in table}

Min(a, b) == IF a <= b THEN a ELSE b

\* An id column that fills the lowest free id instead of counting up.
LowestFreeId(table, nextId) ==
    CHOOSE i \in 1..(Cardinality(table) + 1) : i \notin Ids(table)

\* Post.id / Comment.id / User.id: the implicit auto-increment primary key.
AutoId(table, nextId) == nextId

\* A Post row: the fields of the model, and `created`, the position of the
\* row in the order of creation.
Post(id, data, created) ==
    [id |-> id, title |-> data.title, content |-> data.content,
     publish_date |-> data.publish_date, created |-> created]

Comment(id, content, post_id, user_id) ==
    [id |-> id, content |-> content, post_id |-> post_id, user_id |-> user_id]

User(id, username) == [id |-> id, username |-> username]

\* A ForeignKey that leaves the referencing rows in place.
DoNothingPost(table, post_id) == table

\* Comment.post, on_delete=CASCADE: the comments left after the post goes.
CascadePost(table, post_id) == {c \in table : c.post_id # post_id}

\* Comment.user, on_delete=CASCADE.
CascadeUser(table, user_id) == {c \in table : c.user_id # user_id}

(***************************************************************************)
(* Queries of posts/views.py.                                              *)
(***************************************************************************)
\* order_by("id")
RECURSIVE OrderByIdAsc(_)
OrderByIdAsc(table) ==
    IF table = {} THEN <<>>
    ELSE LET r == CHOOSE x \in table : \A y \in table : x.id <= y.id
         IN  <<r>> \o OrderByIdAsc(table \ {r})

\* order_by("-id")
RECURSIVE OrderByIdDesc(_)
OrderByIdDesc(table) ==
    IF table = {} THEN <<>>
    ELSE LET r == CHOOSE x \in table : \A y \in table : y.id <= x.id
         IN  <<r>> \o OrderByIdDesc(table \ {r})

\* [:n]
Slice(rows, n) == SubSeq(rows, 1, Min(n, Len(rows)))

\* The home query with the sign of the ordering lost: the five oldest posts.
HomeQueryAscending(table) == Slice(OrderByIdAsc(table), HomeLimit)

\* Post.objects.order_by("-id")[:5]
HomeQuery(table) == Slice(OrderByIdDesc(table), HomeLimit)

\* The list query with the home page's slice copied along.
PostListQuerySliced(table) ==
    LET rows == HomeQuery(table)
    IN  [r \in {rows[i] : i \in 1..Len(rows)} |-> 1]

\* Post.objects.all(): no ordering is declared, so the order of the rows is the
\* database's choice; the result is kept as a bag, row -> number of copies.
PostListQuery(table) == [r \in table |-> 1]

\* The comment query filtering on the wrong foreign key, filter(user_id=post_id).
CommentsOfUserQuery(cs, us, post_id) ==
    {[id |-> c.id, content |-> c.content, post_id |-> c.post_id, user |-> u] :
        <<c, u>> \in {x \in cs \X us : x[1].user_id = post_id /\ x[2].id = x[1].user_id}}

\* Comment.objects.filter(post_id=post_id).select_related("user"): the
\* comments of the post, inner-joined with the user each one references.
CommentsQuery(cs, us, post_id) ==
    {[id |-> c.id, content |-> c.content, post_id |-> c.post_id, user |-> u] :
        <<c, u>> \in {x \in cs \X us : x[1].post_id = post_id /\ x[2].id = x[1].user_id}}

\* A lookup that ignores the id and takes the first row.
GetFirstObject(table, id) ==
    IF table = {} THEN {} ELSE {CHOOSE r \in table : \A y \in table : r.id <= y.id}

\* get_object_or_404(Post, id=post_id): the row, or no row (Http404).
get_object_or_404(table, id) == {r \in table : r.id = id}

(***************************************************************************)
(* SignupForm.                                                             *)
(***************************************************************************)
\* A form that does not check the username against the stored users.
IsValidNoUniqueCheck(form, us) == form.password1 = form.password2

\* form.is_valid(): the two passwords agree and no user has the username.
\* (UserCreationForm's other rules, the password policy and the optional email,
\* are the framework's; a mismatch of the passwords stands for a malformed input.)
is_valid(form, us) ==
    /\ form.password1 = form.password2
    /\ form.username \notin {u.username : u \in us}

\* unique=True on User.username: what the INSERT of form.save() is checked against.
UsernameTaken(us, username) == username \in {u.username : u \in us}

(***************************************************************************)
(* Responses.                                                              *)
(***************************************************************************)
\* Http404 raised by get_object_or_404
NotFound(view) == [view |-> view, status |-> 404]

\* an exception no view catches (IntegrityError out of form.save())
ServerError(view) == [view |-> view, status |-> 500]

\* render(request, template, context)
render(view, template, context) ==
    [view |-> view, status |-> 200, template |-> template, context |-> context]

\* redirect("home")
redirect(view, to) == [view |-> view, status |-> 302, location |-> to]

(***************************************************************************)
(* Requests and routing.                                                   *)
(***************************************************************************)
HomeRequests ==
    {[route |-> "", method |-> "GET"], [route |-> "posts/", method |-> "GET"]}

DetailRequests ==
    {[route |-> "posts/<int:post_id>/", method |-> "GET", post_id |-> n] : n \in 1..MaxPosts}

SignupForm ==
    [username : Usernames, password1 : {"pw"}, password2 : Passwords]

SignupRequests ==
    {[route |-> "users/signup/", method |-> "GET"]} \cup
    {[route |-> "users/signup/", method |-> "POST", form |-> f] : f \in SignupForm}

\* urlpatterns of blog_site/urls.py and users/urls.py: the routes of the four
\* views.  (admin/ is the source of the admin actions below; portfolio/ names
\* a view that posts/views.py does not define; login/ and logout/ are the
\* framework's own views.)
urlpatterns(r) ==
    CASE r.route = ""                     -> "home_view"
      [] r.route = "posts/"               -> "post_list_view"
      [] r.route = "posts/<int:post_id>/" -> "post_detail_view"
      [] r.route = "users/signup/"        -> "signup_view"

\* signup POSTs that are validated and not yet saved
SignupsInFlight == {c \in Clients : pc[c] = "signup_save"}

\* The comments (by id) of a post in the tables cs, while the post is in ps.
LiveCommentIds(ps, cs, post_id) ==
    IF post_id \in Ids(ps) THEN {{c.id : c \in {x \in cs : x.post_id = post_id}}} ELSE {}

\* hist[c]: for a detail request between its two queries, the comment sets its
\* post has had in the storage states since the post was looked up.  The last
\* conjunct of every action.
Observe ==
    hist' = [c \in Clients |->
               IF pc'[c] = "post_detail_comments"
               THEN (IF pc[c] = "post_detail_comments" THEN hist[c] ELSE {})
                    \cup LiveCommentIds(posts', comments', req'[c].post_id)
               ELSE {}]

(***************************************************************************)
(* Initial state: an empty database, no request in flight.                 *)
(***************************************************************************)
Init ==
    /\ posts = {}
    /\ comments = {}
    /\ users = {}
    /\ nextPostId = 1
    /\ nextCommentId = 1
    /\ nextUserId = 1
    /\ clock = 0
    /\ pc = [c \in Clients |-> "idle"]
    /\ req = [c \in Clients |-> NoRequest]
    /\ response = NoResponse
    /\ session = [c \in Clients |-> AnonymousSession]
    /\ hist = [c \in Clients |-> {}]

(***************************************************************************)
(* Admin: rows are created and deleted through the registered ModelAdmins  *)
(* (and the auth app's own User admin), each in one transaction.  Rows are *)
(* not edited.                                                             *)
(***************************************************************************)
CreatePost(limit, data) ==
    /\ nextPostId <= limit
    /\ posts' = posts \cup {Post(AutoId(posts, nextPostId), data, clock + 1)}
    /\ nextPostId' = nextPostId + 1
    /\ clock' = clock + 1
    /\ UNCHANGED <<comments, users, nextCommentId, nextUserId, pc, req, session>>
    /\ response' = NoResponse
    /\ Observe

DeletePost(p) ==
    /\ p \in posts
    /\ posts' = posts \ {p}
    /\ comments' = CascadePost(comments, p.id)
    /\ UNCHANGED <<users, nextPostId, nextCommentId, nextUserId, clock, pc, req, session>>
    /\ response' = NoResponse
    /\ Observe

\* the add form offers the existing posts and users as choices
CreateComment(content, p, u) ==
    /\ nextCommentId <= MaxComments
    /\ p \in posts
    /\ u \in users
    /\ comments' = comments \cup {Comment(AutoId(comments, nextCommentId), content, p.id, u.id)}
    /\ nextCommentId' = nextCommentId + 1
    /\ UNCHANGED <<posts, users, nextPostId, nextUserId, clock, pc, req, session>>
    /\ response' = NoResponse
    /\ Observe

DeleteUser(u) ==
    /\ u \in users
    /\ users' = users \ {u}
    /\ comments' = CascadeUser(comments, u.id)
    /\ UNCHANGED <<posts, nextPostId, nextCommentId, nextUserId, clock, pc, req, session>>
    /\ response' = NoResponse
    /\ Observe

(***************************************************************************)
(* Views.  A view starts when an idle client's request is routed to it     *)
(* (urlpatterns); Respond is its return.                                   *)
(***************************************************************************)
Respond(c, r, resp) ==
    /\ response' = [client |-> c, request |-> r, http |-> resp]
    /\ pc' = [pc EXCEPT ![c] = "idle"]
    /\ req' = [req EXCEPT ![c] = NoRequest]

home_view(c, r) ==
    /\ pc[c] = "idle"
    /\ urlpatterns(r) = "home_view"
    /\ Respond(c, r, render("home_view", "home.html", [posts |-> HomeQuery(posts)]))
    /\ UNCHANGED <<store, session>>
    /\ Observe

post_list_view(c, r) ==
    /\ pc[c] = "idle"
    /\ urlpatterns(r) = "post_list_view"
    /\ Respond(c, r, render("post_list_view", "post_list.html", [posts |-> PostListQuery(posts)]))
    /\ UNCHANGED <<store, session>>
    /\ Observe

\* line 43: the post is looked up
post_detail_view(c, r) ==
    /\ pc[c] = "idle"
    /\ urlpatterns(r) = "post_detail_view"
    /\ LET found == get_object_or_404(posts, r.post_id)
       IN  IF found = {}
           THEN Respond(c, r, NotFound("post_detail_view"))
           ELSE /\ pc' = [pc EXCEPT ![c] = "post_detail_comments"]
                /\ req' = [req EXCEPT ![c] =
                             [route |-> r.route, method |-> r.method, post_id |-> r.post_id,
                              post |-> CHOOSE p \in found : TRUE]]
                /\ response' = NoResponse
    /\ UNCHANGED <<store, session>>
    /\ Observe

\* lines 44-47: the comments are queried when the template iterates them
post_detail_view_comments(c) ==
    /\ pc[c] = "post_detail_comments"
    /\ Respond(c, [route |-> req[c].route, method |-> req[c].method, post_id |-> req[c].post_id],
               render("post_detail_view", "post_detail.html",
                      [post |-> req[c].post,
                       comments |-> CommentsQuery(comments, users, req[c].post_id)]))
    /\ UNCHANGED <<store, session>>
    /\ Observe

\* users/views.py lines 8-10 and 16-18: GET renders an empty form; POST validates
signup_view(c, r) ==
    /\ pc[c] = "idle"
    /\ urlpatterns(r) = "signup_view"
    /\ IF r.method = "POST"
       THEN IF is_valid(r.form, users)
            THEN /\ nextUserId + Cardinality(SignupsInFlight) <= MaxUsers  \* bound
                 /\ pc' = [pc EXCEPT ![c] = "signup_save"]
                 /\ req' = [req EXCEPT ![c] = r]
                 /\ response' = NoResponse
            ELSE Respond(c, r, render("signup_view", "signup.html",
                                      [bound |-> TRUE, errors |-> TRUE]))
       ELSE Respond(c, r, render("signup_view", "signup.html",
                                 [bound |-> FALSE, errors |-> FALSE]))
    /\ UNCHANGED <<store, session>>
    /\ Observe

\* users/views.py lines 11-15: form.save() inserts the user; login(); redirect("home")
signup_view_save(c) ==
    /\ pc[c] = "signup_save"
    /\ IF UsernameTaken(users, req[c].form.username)
       THEN /\ Respond(c, req[c], ServerError("signup_view"))
            /\ UNCHANGED <<users, nextUserId, session>>
       ELSE LET user == User(AutoId(users, nextUserId), req[c].form.username)
            IN  /\ users' = users \cup {user}
                /\ nextUserId' = nextUserId + 1
                /\ session' = [session EXCEPT ![c] = login(user)]
                /\ Respond(c, req[c], redirect("signup_view", "home"))
    /\ UNCHANGED <<posts, comments, nextPostId, nextCommentId, clock>>
    /\ Observe

(***************************************************************************)
(* Specifications.                                                         *)
(***************************************************************************)
\* Every client may send every request of the detail and signup views, next to
\* the admin's changes: all interleavings of two requests.
Next ==
    \/ \E d \in PostData : CreatePost(MaxPosts, d)
    \/ \E p \in posts : DeletePost(p)
    \/ \E t \in CommentContents, p \in posts, u \in users : CreateComment(t, p, u)
    \/ \E u \in users : DeleteUser(u)
    \/ \E c \in Clients, r \in DetailRequests : post_detail_view(c, r)
    \/ \E c \in Clients : post_detail_view_comments(c)
    \/ \E c \in Clients, r \in SignupRequests : signup_view(c, r)
    \/ \E c \in Clients : signup_view_save(c)

Spec == Init /\ [][Next]_vars

\* One client reads post details while the other signs up, next to the admin's
\* changes: every interleaving of a detail request with signups, creations
\* and deletions, without two signups at once.
NextSite ==
    \/ \E d \in PostData : CreatePost(MaxPosts, d)
    \/ \E p \in posts : DeletePost(p)
    \/ \E t \in CommentContents, p \in posts, u \in users : CreateComment(t, p, u)
    \/ \E u \in users : DeleteUser(u)
    \/ \E c \in Readers, r \in DetailRequests : post_detail_view(c, r)
    \/ \E c \in Readers : post_detail_view_comments(c)
    \/ \E c \in Signers, r \in SignupRequests : signup_view(c, r)
    \/ \E c \in Signers : signup_view_save(c)

SpecSite == Init /\ [][NextSite]_vars

\* The two post listings over a store of posts that are created and deleted.
NextHome ==
    \/ \E d \in PostData : CreatePost(MaxHomePosts, d)
    \/ \E p \in posts : DeletePost(p)
    \/ \E c \in Readers, r \in HomeRequests : home_view(c, r)
    \/ \E c \in Readers, r \in HomeRequests : post_list_view(c, r)

SpecHome == Init /\ [][NextHome]_vars

(***************************************************************************)
(* Steps, as seen from the two states of a transition.                     *)
(***************************************************************************)
\* client c's request was routed to `view` in this step
Starts(c, view, inflight) ==
    /\ pc[c] = "idle"
    /\ \/ pc'[c] = inflight
       \/ response'.client = c /\ response'.http.view = view

\* ... and this is the request
Started(c) == IF pc'[c] = "idle" THEN response'.request ELSE req'[c]

\* client c's view returned in this step, having started in an earlier one
Returns(c, inflight) == pc[c] = inflight /\ pc'[c] = "idle"

(***************************************************************************)
(* C1.  A detail request for an id that no stored post has is answered     *)
(* with 404 and changes neither the posts, the comments nor the users.     *)
(***************************************************************************)
C1_DetailNotFound ==
    [][\A c \in Clients :
          (/\ Starts(c, "post_detail_view", "post_detail_comments")
           /\ Started(c).post_id \notin Ids(posts))
          => /\ response' = [client |-> c, request |-> Started(c),
                             http |-> NotFound("post_detail_view")]
             /\ pc'[c] = "idle"
             /\ UNCHANGED <<posts, comments, users>>]_vars

\* a 404 for a deleted post's id while another post and its comment are stored
C1_Witness ==
    /\ response.http = NotFound("post_detail_view")
    /\ response.request.post_id \notin Ids(posts)
    /\ response.request.post_id < nextPostId
    /\ posts # {}
    /\ comments # {}

(***************************************************************************)
(* C2.  A detail request for the id of a stored post goes on with that     *)
(* post, and its response carries the post and, of the comments in storage *)
(* when they are queried, exactly those whose post_id is the id, each with *)
(* the user row its user_id names.                                         *)
(***************************************************************************)
C2_DetailPostAndComments ==
    [][\A c \in Clients :
          /\ (/\ Starts(c, "post_detail_view", "post_detail_comments")
              /\ Started(c).post_id \in Ids(posts))
             => /\ pc'[c] = "post_detail_comments"
                /\ req'[c].post \in posts
                /\ req'[c].post.id = Started(c).post_id
          /\ Returns(c, "post_detail_comments")
             => LET got == response'.http.context.comments
                    own == {x \in comments : x.post_id = req[c].post_id}
                IN  /\ response'.client = c
                    /\ response'.http.status = 200
                    /\ response'.http.template = "post_detail.html"
                    /\ response'.http.context.post = req[c].post
                    /\ {x.id : x \in got} = {x.id : x \in own}
                    /\ Cardinality(got) = Cardinality(own)
                    /\ \A x \in got :
                          /\ x.post_id = req[c].post_id
                          /\ x.user \in users
                          /\ \E y \in own : /\ y.id = x.id
                                            /\ y.content = x.content
                                            /\ y.user_id = x.user.id]_vars

\* a detail page with a comment on it, while another post has a comment too
C2_Witness ==
    /\ response.http.view = "post_detail_view"
    /\ response.http.status = 200
    /\ response.http.context.post \in posts
    /\ response.http.context.comments # {}
    /\ \E x \in comments : x.post_id # response.request.post_id

(***************************************************************************)
(* C3.  The home page lists min(5, n) of the n stored posts: the ones with *)
(* the highest ids, in strictly descending order of id; posts 1..7 give    *)
(* 7,6,5,4,3 and an empty store gives an empty list.                       *)
(***************************************************************************)
C3_HomeTopFive ==
    response.http.view = "home_view"
    => LET got == response.http.context.posts
           shown == {got[i] : i \in 1..Len(got)}
       IN  /\ response.http.status = 200
           /\ response.http.template = "home.html"
           /\ Len(got) = Min(HomeLimit, Cardinality(posts))
           /\ Len(got) <= HomeLimit
           /\ shown \subseteq posts
           /\ \A i, j \in 1..Len(got) : i < j => got[i].id > got[j].id
           /\ \A p \in shown, q \in posts \ shown : q.id < p.id
           /\ Ids(posts) = 1..7 => [i \in 1..Len(got) |-> got[i].id] = <<7, 6, 5, 4, 3>>
           /\ posts = {} => got = <<>>

\* the home page of a store with posts 1..7
C3_Witness ==
    /\ response.http.view = "home_view"
    /\ Ids(posts) = 1..7
    /\ Len(response.http.context.posts) = HomeLimit

(***************************************************************************)
(* C7.  The post list holds every stored post once and nothing else,       *)
(* however many there are.                                                 *)
(***************************************************************************)
C7_ListAllPosts ==
    response.http.view = "post_list_view"
    => LET got == response.http.context.posts
       IN  /\ response.http.status = 200
           /\ response.http.template = "post_list.html"
           /\ IsABag(got)
           /\ BagToSet(got) = posts
           /\ \A p \in posts : CopiesIn(p, got) = 1
           /\ BagCardinality(got) = Cardinality(posts)

\* a list longer than the home page's five
C7_Witness ==
    /\ response.http.view = "post_list_view"
    /\ Cardinality(posts) > HomeLimit
    /\ BagCardinality(response.http.context.posts) > HomeLimit

(***************************************************************************)
(* C9.  After any creations and deletions, the home page lists the (up to  *)
(* five) stored posts that were created last, the last created first.      *)
(***************************************************************************)
C9_HomeNewestFirst ==
    /\ \A p, q \in posts : p.created < q.created => p.id < q.id
    /\ response.http.view = "home_view"
       => LET got == response.http.context.posts
              shown == {got[i] : i \in 1..Len(got)}
          IN  /\ Len(got) = Min(HomeLimit, Cardinality(posts))
              /\ shown \subseteq posts
              /\ \A i, j \in 1..Len(got) : i < j => got[i].created > got[j].created
              /\ \A p \in shown, q \in posts \ shown : q.created < p.created

\* a full home page after a deletion and a later creation, one stored post left out
C9_Witness ==
    /\ response.http.view = "home_view"
    /\ Len(response.http.context.posts) = HomeLimit
    /\ Cardinality(posts) > HomeLimit
    /\ \E i \in 1..(nextPostId - 1) : /\ i \notin Ids(posts)
                                      /\ \E p \in posts : p.id > i

(***************************************************************************)
(* C5.  A signup POST that fails validation (the passwords differ, or the  *)
(* username is that of a stored user) gets the signup form back with       *)
(* errors, not a redirect, in the step that validates it; no table         *)
(* changes and no session changes.                                         *)
(***************************************************************************)
FailsValidation(form) ==
    \/ form.password1 # form.password2
    \/ \E u \in users : u.username = form.username

C5_SignupInvalid ==
    [][\A c \in Clients :
          (/\ Starts(c, "signup_view", "signup_save")
           /\ Started(c).method = "POST"
           /\ FailsValidation(Started(c).form))
          => /\ response'.client = c
             /\ response'.http.status = 200
             /\ response'.http.template = "signup.html"
             /\ response'.http.context.errors
             /\ pc'[c] = "idle"
             /\ UNCHANGED store
             /\ UNCHANGED session]_vars

\* the form comes back for a username that a stored user has
C5_Witness ==
    /\ response.http.view = "signup_view"
    /\ response.http.status = 200
    /\ response.request.method = "POST"
    /\ response.http.context.errors
    /\ response.request.form.password1 = response.request.form.password2
    /\ \E u \in users : u.username = response.request.form.username

(***************************************************************************)
(* C6.  Every stored comment references a stored post and a stored user.   *)
(***************************************************************************)
C6_NoOrphanComment ==
    \A x \in comments : x.post_id \in Ids(posts) /\ x.user_id \in Ids(users)

\* a post and a user have been deleted, a comment went with one of them and
\* another comment is left
C6_Witness ==
    /\ Cardinality(posts) < nextPostId - 1
    /\ Cardinality(users) < nextUserId - 1
    /\ Cardinality(comments) < nextCommentId - 1
    /\ comments # {}

(***************************************************************************)
(* C4.  A signup POST that passed validation creates one user with its     *)
(* username and nothing else, logs the client in as that user and          *)
(* redirects to home.                                                      *)
(***************************************************************************)
C4_SignupCreatesUser ==
    [][\A c \in Clients :
          Returns(c, "signup_save")
          => \E u \in users' \ users :
                /\ users' = users \cup {u}
                /\ u.username = req[c].form.username
                /\ UNCHANGED <<posts, comments>>
                /\ session'[c] = [authenticated |-> TRUE, user_id |-> u.id]
                /\ response'.client = c
                /\ response'.http.status = 302
                /\ response'.http.location = "home"]_vars

(***************************************************************************)
(* C10.  Signups with the same username, however interleaved: no two users *)
(* share a username, no two clients are logged in as the same new user,    *)
(* and no signup ends in a server error.                                   *)
(***************************************************************************)
C10_ConcurrentSignup ==
    /\ \A u, v \in users : u.username = v.username => u = v
    /\ \A c, d \in Clients :
          (c # d /\ session[c].authenticated /\ session[d].authenticated)
          => session[c].user_id # session[d].user_id
    /\ ~(response.http.view = "signup_view" /\ response.http.status = 500)

(***************************************************************************)
(* C8.  Every view reads or creates in one storage state: the comments a   *)
(* detail page shows are the comments its post had in one of the storage   *)
(* states since the post was looked up, and a signup that passed           *)
(* validation is saved in a state where it still passes.                   *)
(***************************************************************************)
DetailViewAtomic ==
    [][\A c \in Clients :
          Returns(c, "post_detail_comments")
          => {x.id : x \in response'.http.context.comments} \in hist[c]]_vars

SignupViewAtomic ==
    [][\A c \in Clients :
          Returns(c, "signup_save")
          => /\ is_valid(req[c].form, users)
             /\ response'.http.status # 500]_vars

C8_ViewsAtomic == DetailViewAtomic /\ SignupViewAtomic

====
